---- MODULE Spec2Model ----
(***************************************************************************)
(* xcsg_main: the driver of xcsg (src/xcsg/xcsg_main.cpp).                 *)
(*                                                                         *)
(* run() checks the command line, converts an OpenSCAD .csg input, reads   *)
(* the xcsg tree, sets the secant tolerance and processes the first child  *)
(* of the <xcsg> root that is a solid (run_xsolid) or a 2D shape           *)
(* (run_xshape2d).  The collaborators (command line, file system, xml      *)
(* tree, factory, carve, clipper, the file writers) are outside this file: *)
(* what they return is drawn when the driver calls them, and a call that   *)
(* can throw either returns or raises.  The command line m_cmd is fixed    *)
(* for a run: `opts` holds the options the driver has asked for so far     *)
(* with the answers, and an option asked for again gets the same answer.   *)
(* `log` records every call the driver makes, in order.  Console output    *)
(* (cout, DisplayName, the elapsed times) is not modelled; the timer's     *)
(* init, csg.size(), polyset(), the tree's write_xml, read_xml and         *)
(* get_root and the tests of a child are taken not to raise.               *)
(***************************************************************************)
EXTENDS Integers, Sequences, FiniteSets, TLC

VARIABLES
    pc,         \* position of the driver in run / run_xsolid / run_xshape2d
    outcome,    \* "running", "false", "true" (run returned), "raised"
    error,      \* the exception that left run(): "" when none
    opts,       \* what m_cmd has answered so far: option name -> value
    xcsg_file,  \* std::string xcsg_file / std_filename file (run, line 65, 82)
    tree,       \* cf_xmlTree tree: which file its content comes from
    root,       \* tag of the root get_root gave: "" before, "none" without one
    secant,     \* mesh_utils' global secant tolerance
    children,   \* the children of the root the loop has visited, in order
    icount,     \* size_t icount (line 107)
    nbool,      \* size_t nbool of the model built (lines 141, 234)
    nmani,      \* size_t nmani (lines 174, 249)
    imani,      \* loop index of the lump loop (line 180)
    log         \* the calls made so far

vars == <<pc, outcome, error, opts, xcsg_file, tree, root, secant, children,
          icount, nbool, nmani, imani, log>>

(* ---------------------------------------------------------------- bounds *)
MaxChildren == 2
MaxBool == 1
MaxLumps == 2

(* ------------------------------------------------------------ data types *)
\* the ceilings m_cmd.max_bool() can give: no boolean operation allowed, or
\* up to MaxBool of them
Ceilings == {0, MaxBool}

\* the nbool() a model built can give: no boolean operation, as many as the
\* greatest ceiling, or one more
NboolValues == {0, MaxBool, MaxBool + 1}

NoFile == [stem |-> "", ext |-> "", sep |-> ""]

\* the file names a command line can give: model.csg or model.xcsg, written
\* with forward or backward slashes
FileArgs == [stem : {"model"}, ext : {".csg", ".xcsg"}, sep : {"/", "\\"}]

\* what a child of the root can be: an attribute node, or an element the
\* factory knows as a solid, as a 2D shape, as both, or not at all
ChildKinds == {"attribute", "unknown", "solid", "shape2d", "both"}

\* the exceptions a call into carve (boolean, lump extraction, triangulation)
\* can raise: carve::exception or any other
Raises == {"carve", "other"}

\* the exceptions the other collaborators (converter, factory, clipper, file
\* writers) can raise: none of them is carve
OtherRaises == {"other"}

\* a call: its name, the file and the number it was given (or the number it
\* returned: 1 and 0 for true and false), and the exception it raised, if any
Ev(op, file, n, raised) == [op |-> op, file |-> file, n |-> n, raised |-> raised]
Call(op) == Ev(op, NoFile, 0, "")
CallN(op, n) == Ev(op, NoFile, n, "")
CallF(op, file) == Ev(op, file, 0, "")

Ops(l) == [i \in 1..Len(l) |-> l[i].op]
Has(op) == \E i \in 1..Len(log) : log[i].op = op
Count(op) == Len(SelectSeq(log, LAMBDA e : e.op = op))

(* -------------------------------------------------------- pure functions *)
\* std::replace(xcsg_file.begin(),xcsg_file.end(), '\\', '/')
ReplaceBackslash(f) == [f EXCEPT !.sep = IF f.sep = "\\" THEN "/" ELSE f.sep]

\* IsCsgExt that knows no script extension
IsCsgExt_Never(f) == FALSE

\* file.GetExt() == ".csg"
IsCsgExt(f) == f.ext = ".csg"

\* file.SetExt("xcsg"); xcsg_file = file.GetFullPath()
SetExtXcsg(f) == [f EXCEPT !.ext = ".xcsg"]

IsAttributeNode(k) == k = "attribute"
IsSolid(k) == k \in {"solid", "both"}
IsShape2d(k) == k \in {"shape2d", "both"}

\* Dispatch with the two tests in the other order
Dispatch_Shape2dFirst(k) ==
    IF IsAttributeNode(k) THEN "skip"
    ELSE IF IsShape2d(k) THEN "xshape2d"
    ELSE IF IsSolid(k) THEN "xsolid"
    ELSE "skip"

\* the if / else if of the loop body (lines 110-119): which run_ is called
Dispatch(k) ==
    IF IsAttributeNode(k) THEN "skip"
    ELSE IF IsSolid(k) THEN "xsolid"
    ELSE IF IsShape2d(k) THEN "xshape2d"
    ELSE "skip"

\* the calls the loop body makes to classify a child (lines 110-115)
ClassifyCalls(k) ==
    <<Call("is_attribute_node")>>
    \o (IF IsAttributeNode(k) THEN <<>> ELSE <<Call("is_solid")>>)
    \o (IF IsAttributeNode(k) \/ IsSolid(k) THEN <<>> ELSE <<Call("is_shape2d")>>)

\* what get_root can give: no root ("none"), or a root with the tag "xcsg"
\* or with another tag
RootTags == {"none", "xcsg", "other"}

\* IsSceneRoot that takes any root there is
IsSceneRoot_AnyTag(tag) == TRUE

\* if("xcsg" == root.tag())
IsSceneRoot(tag) == tag = "xcsg"

\* GetProperty that gives a value of its own, not the default it was given
GetProperty_NoDefault(present, default) == IF present THEN "property" ELSE "zero"

\* root.get_property("secant_tolerance",mesh_utils::secant_tolerance()): the
\* property when the root has it, the default it was given when not
GetProperty(present, default) == IF present THEN "property" ELSE default

\* Break without the test: the loop goes on to the next child
Break_Never(n) == FALSE

\* if(icount > 0)break;
Break(n) == n > 0

\* BudgetExceeded that also refuses a model at the ceiling
BudgetExceeded_AtCeiling(n, max) == n >= max

\* BudgetExceeded off by one
BudgetExceeded_OffByOne(n, max) == n > max + 1

\* if(nbool > m_cmd.max_bool())
BudgetExceeded(n, max) == n > max

\* Caught as catch(...) and as a handler that rethrows (line 171)
Caught_All(ex) == TRUE
Caught_Rethrown(ex) == FALSE

\* catch(carve::exception& ex) (line 165)
Caught(ex) == ex = "carve"

(* ----------------------------------------------------------- transitions *)
Goto(p) == pc' = p /\ outcome' = outcome /\ error' = error

ReturnWith(b) ==
    /\ pc' = "done"
    /\ outcome' = (IF b THEN "true" ELSE "false")
    /\ error' = error

Throw(ex) ==
    /\ pc' = "done"
    /\ outcome' = "raised"
    /\ error' = ex

\* m_cmd gives the answers a (option name -> value); it answers the same
\* every time it is asked
Answers(a) ==
    /\ \A name \in DOMAIN a \cap DOMAIN opts : opts[name] = a[name]
    /\ opts' = a @@ opts

Answer(name, v) == Answers(name :> v)

Init ==
    /\ pc = "parsed_ok"
    /\ outcome = "running"
    /\ error = ""
    /\ opts = [name \in {} |-> FALSE]
    /\ xcsg_file = NoFile
    /\ tree = NoFile
    /\ root = ""
    /\ secant = "builtin"
    /\ children = <<>>
    /\ icount = 0
    /\ nbool = 0
    /\ nmani = 0
    /\ imani = 0
    /\ log = <<>>

(* ------------------------------------------------------------------ run *)
\* if(!m_cmd.parsed_ok())return false;
CheckParsed ==
    /\ pc = "parsed_ok"
    /\ \E ok \in BOOLEAN :
          /\ Answer("parsed_ok", ok)
          /\ IF ok THEN Goto("count") ELSE ReturnWith(FALSE)
    /\ UNCHANGED <<xcsg_file, tree, root, secant, children, icount, nbool, nmani, imani, log>>

\* if(m_cmd.count("xcsg-file")==0) ... return false;
CheckFileArg ==
    /\ pc = "count"
    /\ \E given \in BOOLEAN :
          /\ Answer("xcsg-file", given)
          /\ IF given THEN Goto("get") ELSE ReturnWith(FALSE)
    /\ UNCHANGED <<xcsg_file, tree, root, secant, children, icount, nbool, nmani, imani, log>>

\* xcsg_file = m_cmd.get<std::string>("xcsg-file"); std::replace(...)
\* a std::exception of get is rethrown as std::logic_error
GetFileArg ==
    /\ pc = "get"
    /\ \/ \E f \in FileArgs :
             /\ xcsg_file' = ReplaceBackslash(f)
             /\ Goto("exists")
       \/ /\ Throw("logic_error")
          /\ UNCHANGED xcsg_file
    /\ UNCHANGED <<opts, tree, root, secant, children, icount, nbool, nmani, imani, log>>

\* CheckExists without the throw
CheckExists_NoThrow ==
    /\ pc = "exists"
    /\ \E exists \in BOOLEAN :
          /\ log' = Append(log, Ev("Exists", xcsg_file, IF exists THEN 1 ELSE 0, ""))
          /\ Goto("convert")
    /\ UNCHANGED <<opts, xcsg_file, tree, root, secant, children, icount, nbool, nmani, imani>>

\* if(!std_filename::Exists(xcsg_file)) throw std::runtime_error(...)
CheckExists ==
    /\ pc = "exists"
    /\ \E exists \in BOOLEAN :
          /\ log' = Append(log, Ev("Exists", xcsg_file, IF exists THEN 1 ELSE 0, ""))
          /\ IF exists THEN Goto("convert") ELSE Throw("runtime_error")
    /\ UNCHANGED <<opts, xcsg_file, tree, root, secant, children, icount, nbool, nmani, imani>>

\* if(file.GetExt() == ".csg") { parser.to_xcsg(tree); file.SetExt("xcsg");
\*    xcsg_file = file.GetFullPath(); tree.write_xml(xcsg_file); }
Convert ==
    /\ pc = "convert"
    /\ IF IsCsgExt(xcsg_file)
       THEN \/ /\ tree' = xcsg_file
               /\ xcsg_file' = SetExtXcsg(xcsg_file)
               /\ log' = log \o <<CallF("to_xcsg", xcsg_file),
                                  CallF("write_xml", SetExtXcsg(xcsg_file))>>
               /\ Goto("read")
            \/ \E ex \in OtherRaises :
               /\ log' = Append(log, Ev("to_xcsg", xcsg_file, 0, ex))
               /\ Throw(ex)
               /\ UNCHANGED <<tree, xcsg_file>>
       ELSE /\ Goto("read")
            /\ UNCHANGED <<tree, xcsg_file, log>>
    /\ UNCHANGED <<opts, root, secant, children, icount, nbool, nmani, imani>>

\* if(tree.read_xml(xcsg_file)) { ... } else { cout << "error: ..." } return true;
ReadXml ==
    /\ pc = "read"
    /\ \/ /\ log' = Append(log, Ev("read_xml", xcsg_file, 1, ""))
          /\ tree' = xcsg_file
          /\ Goto("root")
       \/ /\ log' = Append(log, Ev("read_xml", xcsg_file, 0, ""))
          /\ ReturnWith(TRUE)
          /\ UNCHANGED tree
    /\ UNCHANGED <<opts, xcsg_file, root, secant, children, icount, nbool, nmani, imani>>

\* if(tree.get_root(root)) { if("xcsg" == root.tag()) {
\*    mesh_utils::set_secant_tolerance(root.get_property("secant_tolerance",
\*                                     mesh_utils::secant_tolerance()));
GetRoot ==
    /\ pc = "root"
    /\ \E r \in RootTags :
          /\ root' = r
          /\ IF r # "none" /\ IsSceneRoot(r)
             THEN \E present \in BOOLEAN :
                     /\ secant' = GetProperty(present, secant)
                     /\ log' = log \o <<CallN("get_root", 1),
                                        CallN("set_secant_tolerance", IF present THEN 1 ELSE 0)>>
                     /\ Goto("loop")
             ELSE /\ log' = Append(log, CallN("get_root", IF r = "none" THEN 0 ELSE 1))
                  /\ ReturnWith(TRUE)
                  /\ UNCHANGED secant
    /\ UNCHANGED <<opts, xcsg_file, tree, children, icount, nbool, nmani, imani>>

\* for(auto i=root.begin(); i!=root.end(); i++) { cf_xmlNode child(i);
\*    if(!child.is_attribute_node()) { if(is_solid(child)) ... else if(is_shape2d(child)) ... }
LoopChild ==
    /\ pc = "loop"
    /\ \/ /\ Len(children) < MaxChildren
          /\ \E k \in ChildKinds :
                /\ children' = Append(children, k)
                /\ log' = log \o ClassifyCalls(k)
                /\ Goto(Dispatch(k))
       \/ /\ ReturnWith(TRUE)
          /\ UNCHANGED <<children, log>>
    /\ UNCHANGED <<opts, xcsg_file, tree, root, secant, icount, nbool, nmani, imani>>

\* SkipChild that never comes to the next child
SkipChild_Spins ==
    /\ pc = "skip"
    /\ UNCHANGED vars

\* a child that is neither solid nor shape2d: if(icount > 0)break; i++
SkipChild ==
    /\ pc = "skip"
    /\ IF Break(icount) THEN ReturnWith(TRUE) ELSE Goto("loop")
    /\ UNCHANGED <<opts, xcsg_file, tree, root, secant, children, icount, nbool, nmani, imani, log>>

\* run_xsolid / run_xshape2d comes to its return true (lines 221, 278), and
\* run goes on after the call: icount++; if(icount > 0)break; ... return true;
ReturnToRun ==
    /\ icount' = icount + 1
    /\ IF Break(icount + 1) THEN ReturnWith(TRUE) ELSE Goto("loop")

\* control passes to the statement at `next`, or to the end of the function
Continue(next) ==
    IF next = "return" THEN ReturnToRun ELSE Goto(next) /\ icount' = icount

\* the exception ex leaves run_xsolid / run_xshape2d, and run
Raise(ex) == Throw(ex) /\ icount' = icount

(* ----------------------------------------------------------- run_xsolid *)
\* ObjectMade that takes a null pointer for an object
ObjectMade_NullTaken(made) == TRUE

\* if(obj.get())
ObjectMade(made) == made = 1

\* std::shared_ptr<xsolid> obj = xcsg_factory::singleton().make_solid(node);
\* if(obj.get()) { ... } else { throw logic_error("xcsg tree contains no data. "); }
MakeSolid ==
    /\ pc = "xsolid"
    /\ \/ \E made \in {0, 1} :
          /\ log' = Append(log, CallN("make_solid", made))
          /\ IF ObjectMade(made) THEN Goto("nbool3") ELSE Throw("logic_error")
       \/ \E ex \in OtherRaises :
          /\ log' = Append(log, Ev("make_solid", NoFile, 0, ex))
          /\ Throw(ex)
    /\ UNCHANGED <<opts, xcsg_file, tree, root, secant, children, icount, nbool, nmani, imani>>

\* size_t nbool = obj->nbool();
\* if(nbool > m_cmd.max_bool()) { ... throw std::logic_error(sout.str()); }
NboolSolid ==
    /\ pc = "nbool3"
    /\ \E n \in NboolValues, max \in Ceilings :
          /\ Answer("max_bool", max)
          /\ nbool' = n
          /\ log' = Append(log, CallN("nbool", n))
          /\ IF BudgetExceeded(n, max) THEN Throw("logic_error") ELSE Goto("reduce3")
    /\ UNCHANGED <<xcsg_file, tree, root, secant, children, icount, nmani, imani>>

\* the calls of the try block (lines 158-159) when the one named `at` raises ex
\* ("" when none does): a call after the one that raised is not made
TryCalls(n, at, ex) ==
    <<CallN("timer_init", n)>>
    \o <<Ev("create_carve_mesh", NoFile, 0, IF at = "create_carve_mesh" THEN ex ELSE "")>>
    \o (IF at = "create_carve_mesh" THEN <<>>
        ELSE <<Ev("carve_compute", NoFile, 0, IF at = "carve_compute" THEN ex ELSE "")>>)

\* carve_boolean csg; try { boolean_timer::singleton().init(nbool);
\*    csg.compute(obj->create_carve_mesh(),UNION); ... }
\* catch(carve::exception& ex ) { ... cout << "WARNING: " ... }
ReduceSolid ==
    /\ pc = "reduce3"
    /\ \/ /\ log' = log \o TryCalls(nbool, "", "")
          /\ Goto("size")
       \/ \E at \in {"create_carve_mesh", "carve_compute"}, ex \in Raises :
          /\ log' = log \o TryCalls(nbool, at, ex)
          /\ IF Caught(ex) THEN Goto("size") ELSE Throw(ex)
    /\ UNCHANGED <<opts, xcsg_file, tree, root, secant, children, icount, nbool, nmani, imani>>

\* size_t nmani = csg.size();  carve_triangulate triangulate;
SizeSolid ==
    /\ pc = "size"
    /\ \E n \in 0..MaxLumps :
          /\ nmani' = n
          /\ log' = Append(log, CallN("size", n))
    /\ imani' = 0
    /\ Goto("lump")
    /\ UNCHANGED <<opts, xcsg_file, tree, root, secant, children, icount, nbool>>

\* what check_polyhedron can count in num_non_tri: no face that is no
\* triangle, or some
NonTriCounts == {0, 1}

\* NeedsTriangulation with the test inverted
NeedsTriangulation_Inverted(num_non_tri) == num_non_tri = 0

\* if(num_non_tri > 0) triangulate.compute2d(...) else triangulate.add(...)
NeedsTriangulation(num_non_tri) == num_non_tri > 0

\* the calls of one pass of the lump loop (lines 183-201) for lump i with
\* num_non_tri faces that are no triangles
LumpCalls(i, num_non_tri) ==
    <<CallN("create_manifold", i), CallN("check_polyhedron", num_non_tri),
      CallN(IF NeedsTriangulation(num_non_tri) THEN "compute2d" ELSE "add", i)>>

\* the same when the k-th of these calls raises ex
LumpCallsRaising(i, num_non_tri, k, ex) ==
    [j \in 1..k |-> IF j = k THEN [LumpCalls(i, num_non_tri)[j] EXCEPT !.raised = ex]
                    ELSE LumpCalls(i, num_non_tri)[j]]

\* LumpLoopGoesOn that leaves the loop one lump early
LumpLoopGoesOn_StopsEarly(i, n) == i + 1 < n

\* imani<nmani
LumpLoopGoesOn(i, n) == i < n

\* for(size_t imani=0; imani<nmani; imani++) { ... }   (lines 180-202)
\* and, after the loop, out_triangles exporter(triangulate.carve_polyset());
LumpSolid ==
    /\ pc = "lump"
    /\ IF LumpLoopGoesOn(imani, nmani)
       THEN \E num_non_tri \in NonTriCounts :
               \/ /\ log' = log \o LumpCalls(imani, num_non_tri)
                  /\ imani' = imani + 1
                  /\ Goto("lump")
               \/ \E k \in 1..3, ex \in Raises :
                  /\ num_non_tri = 0 \/ k > 1
                  /\ log' = log \o LumpCallsRaising(imani, num_non_tri, k, ex)
                  /\ Throw(ex)
                  /\ UNCHANGED imani
       ELSE /\ log' = Append(log, Call("out_triangles"))
            /\ Goto("csg3")
            /\ UNCHANGED imani
    /\ UNCHANGED <<opts, xcsg_file, tree, root, secant, children, icount, nbool, nmani>>

\* if(m_cmd.count(flag)>0) <the writer call `call`>;  then on to `next`
Export(flag, call, next) ==
    \E on \in BOOLEAN :
       /\ Answer(flag, on)
       /\ IF on
          THEN \/ /\ log' = Append(log, call)
                  /\ Continue(next)
               \/ \E ex \in OtherRaises :
                  /\ log' = Append(log, [call EXCEPT !.raised = ex])
                  /\ Raise(ex)
          ELSE /\ log' = log
               /\ Continue(next)

\* if(m_cmd.count("csg")>0) ... exporter.write_csg(xcsg_file)
WriteCsgSolid ==
    /\ pc = "csg3"
    /\ Export("csg", CallF("write_csg", xcsg_file), "amf")
    /\ UNCHANGED <<xcsg_file, tree, root, secant, children, nbool, nmani, imani>>

\* if(m_cmd.count("amf")>0) ... amf.write(triangulate.carve_polyset(),xcsg_file)
WriteAmf ==
    /\ pc = "amf"
    /\ Export("amf", CallF("amf_write", xcsg_file), "obj")
    /\ UNCHANGED <<xcsg_file, tree, root, secant, children, nbool, nmani, imani>>

\* WriteObj that never writes
WriteObj_Skipped ==
    /\ pc = "obj"
    /\ \E on \in BOOLEAN : Answer("obj", on)
    /\ Continue("off")
    /\ UNCHANGED <<xcsg_file, tree, root, secant, children, nbool, nmani, imani, log>>

\* if(m_cmd.count("obj")>0) ... exporter.write_obj(xcsg_file)
WriteObj ==
    /\ pc = "obj"
    /\ Export("obj", CallF("write_obj", xcsg_file), "off")
    /\ UNCHANGED <<xcsg_file, tree, root, secant, children, nbool, nmani, imani>>

\* if(m_cmd.count("off")>0) ... exporter.write_off(xcsg_file)
WriteOff ==
    /\ pc = "off"
    /\ Export("off", CallF("write_off", xcsg_file), "stl")
    /\ UNCHANGED <<xcsg_file, tree, root, secant, children, nbool, nmani, imani>>

\* StlBinary with the two branches exchanged
StlBinary_Exchanged(stl) == IF stl THEN 0 ELSE 1

\* the second argument of write_stl: true (1) writes binary, false (0) ASCII
StlBinary(stl) == IF stl THEN 1 ELSE 0

\* if(m_cmd.count("stl")>0)       ... exporter.write_stl(xcsg_file,true)
\* else if(m_cmd.count("astl")>0) ... exporter.write_stl(xcsg_file,false)
WriteStl ==
    /\ pc = "stl"
    /\ \E stl \in BOOLEAN, astl \in BOOLEAN :
          /\ Answers(IF stl THEN "stl" :> stl ELSE ("stl" :> stl) @@ ("astl" :> astl))
          /\ IF stl \/ astl
             THEN \/ /\ log' = Append(log, Ev("write_stl", xcsg_file, StlBinary(stl), ""))
                     /\ Continue("return")
                  \/ \E ex \in OtherRaises :
                     /\ log' = Append(log, Ev("write_stl", xcsg_file, StlBinary(stl), ex))
                     /\ Raise(ex)
             ELSE /\ log' = log
                  /\ Continue("return")
    /\ UNCHANGED <<xcsg_file, tree, root, secant, children, nbool, nmani, imani>>

(* --------------------------------------------------------- run_xshape2d *)
\* std::shared_ptr<xshape2d> obj = xcsg_factory::singleton().make_shape2d(node);
\* if(obj.get()) { ... } else { throw logic_error("xcsg tree contains no data. "); }
MakeShape2d ==
    /\ pc = "xshape2d"
    /\ \/ \E made \in {0, 1} :
          /\ log' = Append(log, CallN("make_shape2d", made))
          /\ IF ObjectMade(made) THEN Goto("nbool2") ELSE Throw("logic_error")
       \/ \E ex \in OtherRaises :
          /\ log' = Append(log, Ev("make_shape2d", NoFile, 0, ex))
          /\ Throw(ex)
    /\ UNCHANGED <<opts, xcsg_file, tree, root, secant, children, icount, nbool, nmani, imani>>

\* size_t nbool = obj->nbool();
\* if(nbool > m_cmd.max_bool()) { ... throw std::logic_error(sout.str()); }
NboolShape2d ==
    /\ pc = "nbool2"
    /\ \E n \in NboolValues, max \in Ceilings :
          /\ Answer("max_bool", max)
          /\ nbool' = n
          /\ log' = Append(log, CallN("nbool", n))
          /\ IF BudgetExceeded(n, max) THEN Throw("logic_error") ELSE Goto("reduce2")
    /\ UNCHANGED <<xcsg_file, tree, root, secant, children, icount, nmani, imani>>

\* clipper_boolean csg; csg.compute(obj->create_clipper_profile(),ClipperLib::ctUnion);
ReduceShape2d ==
    /\ pc = "reduce2"
    /\ \/ /\ log' = log \o <<Call("create_clipper_profile"), Call("clipper_compute")>>
          /\ Goto("polyset")
       \/ \E ex \in OtherRaises :
          /\ \/ log' = Append(log, Ev("create_clipper_profile", NoFile, 0, ex))
             \/ log' = log \o <<Call("create_clipper_profile"),
                                Ev("clipper_compute", NoFile, 0, ex)>>
          /\ Throw(ex)
    /\ UNCHANGED <<opts, xcsg_file, tree, root, secant, children, icount, nbool, nmani, imani>>

\* std::shared_ptr<polyset2d> polyset = csg.profile()->polyset();
\* size_t nmani = polyset->size();
PolysetShape2d ==
    /\ pc = "polyset"
    /\ \E n \in 0..MaxLumps :
          /\ nmani' = n
          /\ log' = Append(log, CallN("polyset", n))
    /\ Goto("csg2")
    /\ UNCHANGED <<opts, xcsg_file, tree, root, secant, children, icount, nbool, imani>>

\* openscad_csg openscad(xcsg_file); then write_polygon for the first n loops
OpenscadCalls(file, n) ==
    <<CallF("openscad_csg", file)>> \o [j \in 1..n |-> CallN("write_polygon", j - 1)]

\* if(m_cmd.count("csg")>0) { openscad_csg openscad(xcsg_file);
\*    for(auto i=polyset->begin(); i!=polyset->end(); i++) openscad.write_polygon(*i); }
WriteCsgShape2d ==
    /\ pc = "csg2"
    /\ \E on \in BOOLEAN :
          /\ Answer("csg", on)
          /\ IF on
             THEN \/ /\ log' = log \o OpenscadCalls(xcsg_file, nmani)
                     /\ Goto("svg")
                  \/ \E k \in 0..nmani, ex \in OtherRaises :
                     /\ log' = [j \in 1..(Len(log) + k + 1) |->
                                   IF j <= Len(log) THEN log[j]
                                   ELSE IF j = Len(log) + k + 1
                                   THEN [OpenscadCalls(xcsg_file, k)[k + 1] EXCEPT !.raised = ex]
                                   ELSE OpenscadCalls(xcsg_file, k)[j - Len(log)]]
                     /\ Throw(ex)
             ELSE /\ log' = log
                  /\ Goto("svg")
    /\ UNCHANGED <<xcsg_file, tree, root, secant, children, icount, nbool, nmani, imani>>

\* if(m_cmd.count("svg")>0) { svg_file svg; ... svg.write(polyset,xcsg_file) }
WriteSvg ==
    /\ pc = "svg"
    /\ Export("svg", CallF("svg_write", xcsg_file), "dxf")
    /\ UNCHANGED <<xcsg_file, tree, root, secant, children, nbool, nmani, imani>>

\* WriteDxf without the test of the flag
WriteDxf_Unconditional ==
    /\ pc = "dxf"
    /\ \E on \in BOOLEAN : Answer("dxf", on)
    /\ log' = Append(log, CallF("dxf_write", xcsg_file))
    /\ Continue("return")
    /\ UNCHANGED <<xcsg_file, tree, root, secant, children, nbool, nmani, imani>>

\* if(m_cmd.count("dxf")>0) { dxf_file dxf; ... dxf.write(polyset,xcsg_file) }
WriteDxf ==
    /\ pc = "dxf"
    /\ Export("dxf", CallF("dxf_write", xcsg_file), "return")
    /\ UNCHANGED <<xcsg_file, tree, root, secant, children, nbool, nmani, imani>>

(* -------------------------------------------------------- specification *)
Next ==
    \/ CheckParsed \/ CheckFileArg \/ GetFileArg \/ CheckExists \/ Convert
    \/ ReadXml \/ GetRoot \/ LoopChild \/ SkipChild
    \/ MakeSolid \/ NboolSolid \/ ReduceSolid \/ SizeSolid \/ LumpSolid
    \/ WriteCsgSolid \/ WriteAmf \/ WriteObj \/ WriteOff \/ WriteStl
    \/ MakeShape2d \/ NboolShape2d \/ ReduceShape2d \/ PolysetShape2d
    \/ WriteCsgShape2d \/ WriteSvg \/ WriteDxf

Spec == Init /\ [][Next]_vars

\* the driver is one thread and none of its statements waits: as long as a
\* call it has made returns or raises, it takes its next step
FairSpec == Spec /\ WF_vars(Next)

(* ------------------------------------------------- vocabulary of claims *)
\* `log` only grows and every run comes to pc = "done", so what holds of the
\* whole log is stated of the runs that have ended
Ended == pc = "done"

\* an option the command line has answered as set
Flag(f) == f \in DOMAIN opts /\ opts[f] = TRUE

BooleanKernelOps ==
    {"create_carve_mesh", "carve_compute", "create_clipper_profile", "clipper_compute"}
ReductionOps3d == {"create_carve_mesh", "carve_compute"}
LumpOps == {"create_manifold", "check_polyhedron", "compute2d", "add"}
TriangulationOps == {"compute2d", "add"}
EncoderOps3d == {"out_triangles", "write_csg", "amf_write", "write_obj", "write_off", "write_stl"}
EncoderOps2d == {"openscad_csg", "write_polygon", "svg_write", "dxf_write"}
StageOps3d == {"make_solid", "timer_init", "size"} \cup ReductionOps3d \cup LumpOps \cup EncoderOps3d
StageOps2d ==
    {"make_shape2d", "create_clipper_profile", "clipper_compute", "polyset"} \cup EncoderOps2d

HasAny(ops) == \E i \in 1..Len(log) : log[i].op \in ops

\* the names of the calls made so far
Called == {log[i].op : i \in 1..Len(log)}

\* the name of the call made last ("" before the first).  Every call is the
\* last one in the state after it was made, so what holds of the last call in
\* every state holds of every call of a run
LastOp == IF log = <<>> THEN "" ELSE log[Len(log)].op

\* run_xsolid / run_xshape2d came to its return true
Finished3d == pc = "done" /\ outcome = "true" /\ Has("make_solid")
Finished2d == pc = "done" /\ outcome = "true" /\ Has("make_shape2d")

\* the call e is a call of the reduction of the solid that raised carve::exception
CarveInReduction(e) == e.op \in ReductionOps3d /\ e.raised = "carve"

CarveRaisedInReduction == \E i \in 1..Len(log) : CarveInReduction(log[i])

(* ------------------------------------------------------------------ C1 *)
\* the calls the budget gate stands before
GatedOps ==
    BooleanKernelOps \cup {"timer_init"} \cup TriangulationOps \cup EncoderOps3d
    \cup EncoderOps2d

\* C1: when the nbool of the model built is greater than max_bool, the run
\* has ended with an error, obj->nbool() was its last call, and no boolean
\* kernel call, no initialisation of the timer, no triangulation call and no
\* encoder call was made in it
C1_BudgetGatePrecedesKernel ==
    ("max_bool" \in DOMAIN opts /\ nbool > opts["max_bool"])
    => /\ pc = "done" /\ outcome = "raised" /\ error = "logic_error"
       /\ log[Len(log)] = CallN("nbool", nbool)
       /\ ~HasAny(GatedOps)

C1_Witness ==
    /\ Has("make_shape2d")
    /\ log[Len(log)].op = "nbool"
    /\ nbool = MaxBool + 1
    /\ opts["max_bool"] = MaxBool
    /\ outcome = "raised"

Fixed3d == <<"csg", "amf", "obj", "off", "stl">>

Writer3d(f) ==
    CASE f = "csg" -> "write_csg"
      [] f = "amf" -> "amf_write"
      [] f = "obj" -> "write_obj"
      [] f = "off" -> "write_off"
      [] f = "stl" -> "write_stl"

Enabled3d(f) == IF f = "stl" THEN Flag("stl") \/ Flag("astl") ELSE Flag(f)

Expected3d ==
    LET on == SelectSeq(Fixed3d, Enabled3d) IN [i \in 1..Len(on) |-> Writer3d(on[i])]

IsWriter3d(op) == op \in EncoderOps3d \ {"out_triangles"}

Invoked3d == SelectSeq(Ops(log), IsWriter3d)

\* C3: when run_xsolid comes to its end, the encoders it called are, in
\* order, those of csg, amf, obj, off, stl that are enabled (stl by stl or
\* astl): each once, none that is disabled, the STL write last
C3_Export3dSequence == Finished3d => Invoked3d = Expected3d

C3_Witness ==
    /\ Finished3d
    /\ Flag("obj") /\ Flag("stl") /\ opts["csg"] = FALSE /\ opts["amf"] = FALSE
    /\ Flag("off")
    /\ Invoked3d = <<"write_obj", "write_off", "write_stl">>

(* ------------------------------------------------------------------ C4 *)
\* C4: in a run that has ended, at most one STL write was made; the write is
\* the binary one exactly when stl is set, the ASCII one exactly when astl is
\* set and stl is not; none is made when neither is set, and one is made at
\* the end of run_xsolid when either is set
C4_StlExclusive ==
    Ended =>
       LET called == Called IN
       /\ "write_stl" \in called =>
             /\ Count("write_stl") <= 1
             /\ \A i \in 1..Len(log) :
                   log[i].op = "write_stl"
                   => /\ log[i].n = 1 <=> Flag("stl")
                      /\ log[i].n = 0 <=> (Flag("astl") /\ ~Flag("stl"))
                      /\ log[i].n \in {0, 1}
       /\ (outcome = "true" /\ "make_solid" \in called)
          => ("write_stl" \in called <=> (Flag("stl") \/ Flag("astl")))

C4_Witness ==
    /\ Finished3d
    /\ Flag("astl") /\ ~Flag("stl")
    /\ \E i \in 1..Len(log) : log[i].op = "write_stl" /\ log[i].n = 0 /\ log[i].raised = ""

(* ------------------------------------------------------------------ C5 *)
Fixed2d == <<"csg", "svg", "dxf">>

Writer2d(f) ==
    CASE f = "csg" -> "openscad_csg"
      [] f = "svg" -> "svg_write"
      [] f = "dxf" -> "dxf_write"

Enabled2d(f) == Flag(f)

Expected2d ==
    LET on == SelectSeq(Fixed2d, Enabled2d) IN [i \in 1..Len(on) |-> Writer2d(on[i])]

\* an encoder of the 2D path is used when its object is made (openscad_csg)
\* or its write is called (svg, dxf); write_polygon is a call on the
\* openscad_csg object already made
IsWriter2d(op) == op \in EncoderOps2d \ {"write_polygon"}

Invoked2d == SelectSeq(Ops(log), IsWriter2d)

\* the write_polygon calls are made between the making of the openscad_csg
\* object and the next encoder, one for each loop of the polyset
PolygonsWithinCsg ==
    /\ Count("write_polygon") = (IF Has("openscad_csg") THEN nmani ELSE 0)
    /\ \A i \in 1..Len(log) :
          log[i].op = "write_polygon" => log[i - 1].op \in {"openscad_csg", "write_polygon"}

\* C5: when run_xshape2d comes to its end, the encoders it used are, in
\* order, those of csg, svg, dxf that are enabled: each once, none that is
\* disabled, the DXF write last
C5_Export2dSequence == Finished2d => Invoked2d = Expected2d /\ PolygonsWithinCsg

C5_Witness ==
    /\ Finished2d
    /\ nmani = MaxLumps
    /\ Invoked2d = <<"openscad_csg", "svg_write", "dxf_write">>
    /\ log[Len(log)].op = "dxf_write"

(* ------------------------------------------------------------------ C6 *)
Classifiable == {"solid", "shape2d", "both"}

\* the first call of run_xsolid / run_xshape2d
IsMake(e) == e.op \in {"make_solid", "make_shape2d"}

\* C6: the loop never visits a child after one that is a solid or a 2D
\* shape, and it goes on after a child that is neither; in a run that has
\* ended, run_xsolid / run_xshape2d was called at most once, for the last
\* child visited, and every child visited was classified once; this holds
\* whether the call returned or raised
C6_SingleModelPerRun ==
    /\ \A i \in 1..Len(children) :
          IF children[i] \in Classifiable
          THEN i = Len(children) /\ pc # "loop"
          ELSE i = Len(children) => pc \in {"skip", "loop", "done"}
    /\ Ended =>
          LET called == Called IN
          /\ Len(SelectSeq(log, IsMake)) = (IF children # <<>> /\ children[Len(children)] \in Classifiable
                                            THEN 1 ELSE 0)
          /\ "make_solid" \in called => children[Len(children)] \in {"solid", "both"}
          /\ "make_shape2d" \in called => children[Len(children)] = "shape2d"
          /\ Count("is_attribute_node") = Len(children)

C6_Witness ==
    /\ children = <<"unknown", "solid">>
    /\ Ops(log)[Len(log)] = "create_manifold"
    /\ outcome = "raised"

(* ------------------------------------------------------------------ C7 *)
\* the call e raised and is not a call of the reduction of the solid raising
\* carve::exception
Failure(e) == e.raised # "" /\ ~CarveInReduction(e)

\* C7: a run goes on after no failure; in a run that has ended, a failure is
\* the last call of the run, and the run ended with that exception: no stage
\* or encoder was called after it
C7_OnlyCarveIntercepted ==
    /\ (log # <<>> /\ Failure(log[Len(log)])) => Ended
    /\ Ended =>
          \A i \in 1..Len(log) :
             Failure(log[i]) => i = Len(log) /\ outcome = "raised" /\ error = log[i].raised

C7_Witness ==
    /\ CarveRaisedInReduction
    /\ Has("write_obj")
    /\ log[Len(log)].op = "write_stl"
    /\ log[Len(log)].raised = "other"
    /\ outcome = "raised"

(* ------------------------------------------------------------------ C8 *)
\* C8: a run over an <xcsg> root without a child that is a solid or a 2D
\* shape ends with an error
C8_MalformedInputReported ==
    (/\ pc = "done"
     /\ root = "xcsg"
     /\ \A i \in 1..Len(children) : children[i] \notin Classifiable)
    => outcome = "raised"

(* ------------------------------------------------------------------ C9 *)
\* Exists answered that the file is not there
NotFound(e) == e.op = "Exists" /\ e.n = 0

UsageError ==
    \/ "parsed_ok" \in DOMAIN opts /\ opts["parsed_ok"] = FALSE
    \/ "xcsg-file" \in DOMAIN opts /\ opts["xcsg-file"] = FALSE
    \/ \E i \in 1..Len(log) : NotFound(log[i])

\* C9: when the command line did not parse, names no input file, or names a
\* file that does not exist, the run ends there, returning false or raising:
\* it has converted and read no tree, not set the secant tolerance, and
\* classified, built, reduced and exported nothing
C9_UsageErrorsHalt ==
    /\ (log # <<>> /\ NotFound(log[Len(log)])) => Ended
    /\ ("parsed_ok" \in DOMAIN opts /\ ~opts["parsed_ok"]) => Ended
    /\ ("xcsg-file" \in DOMAIN opts /\ ~opts["xcsg-file"]) => Ended
    /\ (Ended /\ UsageError)
       => /\ outcome \in {"false", "raised"}
          /\ outcome = "raised" <=> Has("Exists")
          /\ tree = NoFile /\ root = "" /\ secant = "builtin" /\ children = <<>>
          /\ \A i \in 1..Len(log) : log[i].op = "Exists"

C9_Witness ==
    /\ outcome = "raised" /\ error = "runtime_error"
    /\ xcsg_file.ext = ".csg"
    /\ Len(log) = 1 /\ log[1].op = "Exists" /\ log[1].n = 0

(* ----------------------------------------------------------------- C10 *)
\* C10: the stages called in a run are all of the 3D path or all of the 2D
\* path; a child that is both a solid and a 2D shape is processed as a solid;
\* the 2D path calls no triangulation
C10_NeverBoth3dAnd2d ==
    /\ (children # <<>> /\ children[Len(children)] = "both") => pc # "xshape2d"
    /\ Ended =>
          LET called == Called IN
          /\ ~(called \cap StageOps3d # {} /\ called \cap StageOps2d # {})
          /\ (children # <<>> /\ children[Len(children)] = "both")
             => called \cap StageOps2d = {}
          /\ "make_shape2d" \in called => called \cap (LumpOps \cup {"timer_init"}) = {}

C10_Witness ==
    /\ children # <<>> /\ children[Len(children)] = "both"
    /\ pc = "done" /\ outcome = "true"
    /\ Has("carve_compute") /\ Has("compute2d") /\ Has("write_stl")

(* ----------------------------------------------------------------- C11 *)
\* the model built passed the check of the budget
BudgetPassed == "max_bool" \in DOMAIN opts /\ nbool <= opts["max_bool"]

\* the statement that reduces the model (line 159, line 246) was run once:
\* its operand (create_carve_mesh, create_clipper_profile) was made once and,
\* unless making it raised, compute was called once; no call of the other
\* path's kernel was made
ReducedOnce(mesh, compute, others) ==
    /\ Count(mesh) = 1
    /\ Count(compute) = (IF \E i \in 1..Len(log) : log[i].op = mesh /\ log[i].raised # ""
                         THEN 0 ELSE 1)
    /\ ~HasAny(others)

\* C11: the run ends at the budget check with an error if and only if the
\* nbool of the model is greater than max_bool; a model that passes (nbool
\* equal to max_bool and nbool = 0 among them) has no kernel call made before
\* its reduction; the reduction leaves a kernel call as the last call; and
\* whenever a kernel call is the last call, it is the reduction just run, and
\* the reduction of its path was run exactly once, for a solid and for a 2D
\* shape
C11_BudgetBoundary ==
    "max_bool" \in DOMAIN opts =>
       /\ (outcome = "raised" /\ LastOp = "nbool") <=> nbool > opts["max_bool"]
       /\ (BudgetPassed /\ pc \in {"reduce3", "reduce2"}) => ~HasAny(BooleanKernelOps)
       /\ (BudgetPassed /\ pc \in {"size", "polyset"}) => LastOp \in BooleanKernelOps
       /\ LastOp \in BooleanKernelOps =>
             /\ BudgetPassed
             /\ pc \in {"size", "polyset", "done"}
             /\ IF Has("make_solid")
                THEN ReducedOnce("create_carve_mesh", "carve_compute",
                                 {"create_clipper_profile", "clipper_compute"})
                ELSE ReducedOnce("create_clipper_profile", "clipper_compute",
                                 {"create_carve_mesh", "carve_compute"})

C11_Witness ==
    /\ pc = "polyset"
    /\ nbool = MaxBool /\ opts["max_bool"] = MaxBool
    /\ log[Len(log)] = Call("clipper_compute")
    /\ \E i \in 1..Len(log) : log[i] = CallN("nbool", MaxBool)

(* ----------------------------------------------------------------- C12 *)
IsCreateManifold(e) == e.op = "create_manifold"

\* the lumps extracted so far, in the order of their extraction
Manifolds == SelectSeq(log, IsCreateManifold)

\* the lump loop has just been left by its test (line 180)
LumpLoopCompleted == pc = "csg3"

\* the lumps were extracted in the order 0, 1, ..., each once; a lump
\* extracted was checked and then, unless a call raised, handed to compute2d
\* when check_polyhedron counted a face that is no triangle and to add when
\* it counted none; compute2d and add were called for a lump just extracted
\* and checked only
LumpsGated ==
    /\ \A k \in 1..Len(Manifolds) : Manifolds[k].n = k - 1
    /\ \A i \in 1..Len(log) :
          /\ (log[i].op = "create_manifold" /\ log[i].raised = "")
             => /\ i < Len(log)
                /\ log[i + 1].op = "check_polyhedron"
                /\ log[i + 1].raised = ""
                   => /\ i + 2 <= Len(log)
                      /\ log[i + 2].op = (IF log[i + 1].n > 0 THEN "compute2d" ELSE "add")
                      /\ log[i + 2].n = log[i].n
          /\ log[i].op \in TriangulationOps
             => /\ i > 2
                /\ log[i - 1].op = "check_polyhedron" /\ log[i - 1].raised = ""
                /\ log[i - 2].op = "create_manifold"

\* C12: a call on a lump is the last call only in the lump loop or when it
\* raised and ended the run; in the loop, and whenever a call on a lump is
\* the last call, the lumps were gated as LumpsGated says; and when the loop
\* is left by its test all nmani lumps were extracted and each was handed to
\* compute2d or add once
C12_TriangulationGate ==
    /\ LastOp \in LumpOps =>
          /\ pc = "lump" \/ (Ended /\ outcome = "raised" /\ log[Len(log)].raised # "")
          /\ LumpsGated
    /\ pc = "lump" => LumpsGated
    /\ LumpLoopCompleted
       => /\ LumpsGated
          /\ Len(Manifolds) = nmani
          /\ Count("compute2d") + Count("add") = nmani

C12_Witness ==
    /\ pc = "csg3"
    /\ nmani = MaxLumps
    /\ \E i, j \in 1..Len(log) :
          /\ log[i] = CallN("check_polyhedron", 1) /\ log[i + 1] = CallN("compute2d", 0)
          /\ log[j] = CallN("check_polyhedron", 0) /\ log[j + 1] = CallN("add", MaxLumps - 1)

(* ----------------------------------------------------------------- C13 *)
\* the factory returned no object: make_solid / make_shape2d gave null
NoObject(e) == IsMake(e) /\ e.n = 0 /\ e.raised = ""

\* C13: when make_solid or make_shape2d returns no object, the run has ended
\* with an error and that call was its last: nbool was not asked for, max_bool
\* was not read, and no kernel, triangulation or encoder call was made
C13_BuildFailureHalts ==
    (log # <<>> /\ NoObject(log[Len(log)])) =>
       /\ pc = "done" /\ outcome = "raised" /\ error = "logic_error"
       /\ "max_bool" \notin DOMAIN opts
       /\ ~Has("nbool")
       /\ ~HasAny(GatedOps \cup LumpOps \cup {"size", "polyset"})

C13_Witness ==
    /\ children = <<"attribute", "shape2d">>
    /\ log[Len(log)] = CallN("make_shape2d", 0)
    /\ outcome = "raised"

(* ----------------------------------------------------------------- C14 *)
\* the calls that are given a base path to write to
PathOps ==
    {"write_csg", "amf_write", "write_obj", "write_off", "write_stl",
     "openscad_csg", "svg_write", "dxf_write"}

\* the positions of the driver from get_root on: the tree is in use
TreeInUse ==
    pc \notin {"parsed_ok", "count", "get", "exists", "convert", "read", "done"}

\* the file named on the command line, as Exists was asked for it
InputFile == log[1].file

\* the path of the tree-format file of the input: a .csg input's name with
\* the extension xcsg, any other input itself
TreeFile ==
    IF InputFile.ext = ".csg" THEN [InputFile EXCEPT !.ext = ".xcsg"] ELSE InputFile

\* the calls made up to read_xml: Exists, for a .csg input the conversion
\* and the write to the .xcsg path, and read_xml of the tree-format file
Prelude ==
    <<Ev("Exists", InputFile, 1, "")>>
    \o (IF InputFile.ext = ".csg"
        THEN <<CallF("to_xcsg", InputFile), CallF("write_xml", TreeFile)>> ELSE <<>>)
    \o <<[Ev("read_xml", TreeFile, 1, "") EXCEPT !.n = log[Len(log)].n]>>

\* C14: when the driver comes to read the tree, a .csg input, and no other,
\* was converted and written to the .xcsg path; the converter is called on
\* the input file and is the last call only when it raised and ended the
\* run; when read_xml is the last call, the calls so far are those of
\* Prelude: the tree is read once, after the conversion, from the
\* tree-format file; while the tree is in use it is the tree read from that
\* file; and every encoder is given the path of that file
C14_ScriptConvertedFirst ==
    /\ pc = "read" =>
          IF InputFile.ext = ".csg"
          THEN log = <<Ev("Exists", InputFile, 1, ""), CallF("to_xcsg", InputFile),
                       CallF("write_xml", TreeFile)>>
          ELSE log = <<Ev("Exists", InputFile, 1, "")>>
    /\ LastOp = "to_xcsg" =>
          /\ InputFile.ext = ".csg"
          /\ Len(log) = 2 /\ log[2].file = InputFile /\ log[2].raised # ""
          /\ Ended /\ outcome = "raised"
    /\ LastOp = "write_xml" => pc = "read"
    /\ LastOp = "read_xml" => log = Prelude /\ pc \in {"root", "done"}
    /\ TreeInUse =>
          /\ tree = xcsg_file /\ tree = TreeFile
          /\ log[IF InputFile.ext = ".csg" THEN 4 ELSE 2] = Ev("read_xml", TreeFile, 1, "")
    /\ LastOp \in PathOps => log[Len(log)].file = TreeFile

C14_Witness ==
    /\ Finished3d
    /\ InputFile.ext = ".csg"
    /\ log[2] = CallF("to_xcsg", InputFile)
    /\ log[Len(log)].op = "write_stl"
    /\ log[Len(log)].file = [stem |-> "model", ext |-> ".xcsg", sep |-> "/"]

(* ----------------------------------------------------------------- C15 *)
\* the positions of the driver at the writers of run_xsolid (lines 209-215)
AtExport3d == pc \in {"csg3", "amf", "obj", "off", "stl"}

\* how many of the first n - 1 calls are calls of ops that returned
CountBefore(n, ops) ==
    Cardinality({j \in 1..(n - 1) : log[j].op \in ops /\ log[j].raised = ""})

\* C15: when the first encoder of the 3D path is invoked (out_triangles,
\* which is made from the combined mesh), every one of the nmani lumps has
\* been extracted and handed to compute2d or add; from then to the end of the
\* run the last call is an encoder call, never one that extracts, checks,
\* triangulates or adds a lump, and the lump index stays at nmani; and an
\* encoder is the last call at the writers or at the end of the run only
C15_MeshFrozenBeforeExport ==
    /\ pc = "csg3" => LastOp = "out_triangles"
    /\ LastOp = "out_triangles" =>
          /\ \A j \in 1..(Len(log) - 1) : log[j].op \notin EncoderOps3d
          /\ CountBefore(Len(log), {"create_manifold"}) = nmani
          /\ CountBefore(Len(log), TriangulationOps) = nmani
    /\ AtExport3d => LastOp \in EncoderOps3d /\ imani = nmani
    /\ LastOp \in EncoderOps3d => (AtExport3d \/ Ended) /\ imani = nmani

C15_Witness ==
    /\ Finished3d
    /\ nmani = MaxLumps
    /\ Has("compute2d") /\ Has("add")
    /\ Has("write_csg") /\ Has("write_off")
    /\ log[Len(log)].op = "write_stl"

(* ----------------------------------------------------------------- C16 *)
IsTimerInit(e) == e.op = "timer_init"

\* the reduction of the model built has been started
ReductionStarted == HasAny(BooleanKernelOps)

\* C16: once the reduction of the node processed has started, the timer was
\* initialised exactly once, with the nbool of the node, after nbool was
\* asked for and the budget check passed and before the first kernel call
C16_TimerInitialisedOnce ==
    (pc \in {"size", "polyset", "done"} /\ ReductionStarted) =>
       /\ Len(SelectSeq(log, IsTimerInit)) = 1
       /\ \A i \in 1..Len(log) :
             IsTimerInit(log[i])
             => /\ log[i].n = nbool
                /\ nbool <= opts["max_bool"]
                /\ i > 1 /\ log[i - 1] = CallN("nbool", nbool)
                /\ \A j \in 1..i : log[j].op \notin BooleanKernelOps

(* ----------------------------------------------------------------- C17 *)
\* the calls that classify, build, reduce, triangulate or export a child
ChildOps ==
    {"is_attribute_node", "is_solid", "is_shape2d", "nbool"}
    \cup StageOps3d \cup StageOps2d

\* this step calls set_secant_tolerance
SetsSecant == log' # log /\ log'[Len(log')].op = "set_secant_tolerance"

\* C17: the secant tolerance is the built-in one before the first call of a
\* run; a step changes it only by calling set_secant_tolerance; the call is
\* made right after get_root, when no call for a child and no earlier call
\* of set_secant_tolerance was made, and it leaves the tolerance at the
\* property of the root when the root has one and at the value it had when
\* the root has none
C17_SecantSetOnce ==
    /\ [](log = <<>> => secant = "builtin")
    /\ [][secant' # secant => SetsSecant]_vars
    /\ [][SetsSecant =>
             /\ ~HasAny(ChildOps \cup {"set_secant_tolerance"})
             /\ log'[Len(log') - 1] = CallN("get_root", 1)
             /\ secant' = (IF log'[Len(log')].n = 1 THEN "property" ELSE secant)]_vars

C17_Witness ==
    /\ Finished2d
    /\ secant = "property"
    /\ Has("svg_write")
    /\ \E i \in 1..Len(log) : log[i] = CallN("set_secant_tolerance", 1)

(* ----------------------------------------------------------------- C18 *)
\* read_xml gave false
ReadFailed(e) == e.op = "read_xml" /\ e.n = 0

\* the calls run makes before it looks at the root's tag
PreludeOps == {"Exists", "to_xcsg", "write_xml", "read_xml", "get_root"}

\* C18: when read_xml gave false, get_root gave no root, or the root's tag
\* is not "xcsg", run has returned true, and it has classified and processed
\* no child, not set the secant tolerance, and made no kernel, triangulation
\* or encoder call
C18_SceneRootGate ==
    (\/ root \in {"none", "other"}
     \/ log # <<>> /\ ReadFailed(log[Len(log)]))
    => /\ pc = "done" /\ outcome = "true" /\ error = ""
       /\ children = <<>> /\ icount = 0
       /\ secant = "builtin"
       /\ \A i \in 1..Len(log) : log[i].op \in PreludeOps

C18_Witness ==
    /\ root = "other"
    /\ outcome = "true"
    /\ log[Len(log)] = CallN("get_root", 1)
    /\ Has("write_xml")

(* ----------------------------------------------------------------- C19 *)
Outcomes == {"false", "true", "raised"}

\* C19: every run comes to its end; a run that has not ended has no outcome
\* and one that has ended has exactly one of returned false, returned true
\* and raised, which no later step changes; and the child loop is left as
\* soon as one child was processed: icount never passes 1, and the run has
\* ended when it is 1
C19_Termination ==
    /\ <>Ended
    /\ [](IF Ended THEN outcome \in Outcomes ELSE outcome = "running")
    /\ [](outcome = "raised" <=> error # "")
    /\ [][Ended => UNCHANGED <<pc, outcome, error>>]_vars
    /\ [](icount <= 1 /\ (icount = 1 => Ended /\ outcome = "true"))

C19_Witness ==
    /\ Ended /\ outcome = "true"
    /\ children = <<"unknown", "both">>
    /\ icount = 1
    /\ nmani = MaxLumps
    /\ log[Len(log)].op = "write_stl"

====
